---- MODULE Spec2Model ----
(***************************************************************************)
(* A model of the two programs of the repository:                          *)
(*   FeatureExtractor/networks/resnet.py  (class ResNet)                   *)
(*   SVM/generate_report.py               (the HTML/PNG report)            *)
(*                                                                         *)
(* Four specifications share the variables of this module:                 *)
(*   SpecNet     residual_network as a function of its arguments           *)
(*   SpecSched   scheduler as a function of the epoch                      *)
(*   Spec        the life of one ResNet object: constructor, then train()  *)
(*   SpecReport  calculate_metrics and generate_html_report                *)
(***************************************************************************)
EXTENDS Integers, Sequences, FiniteSets

(***************************************************************************)
(* Bounds of the model.                                                    *)
(***************************************************************************)
MaxStack == 5        \* stack_n ranges over 0..MaxStack in SpecNet
MaxClasses == 3      \* classes_num / num_classes ranges over 1..MaxClasses
MaxShrink == 2       \* image sides range over ImgRows-MaxShrink..ImgRows in SpecNet
MaxSchedEpochs == 160  \* the epochs argument of fit ranges over 0..MaxSchedEpochs in SpecSched
MaxManual == 1       \* entries of results the caller writes by hand in SpecReport
MaxEpochs == 3       \* the epochs argument of ResNet ranges over 0..MaxEpochs in Spec
MaxLoss == 3         \* the val_loss of an epoch ranges over 1..MaxLoss in Spec
MaxTrainCalls == 2   \* calls of train() by the client of the object in Spec

(***************************************************************************)
(* Constants of ResNet.__init__.                                           *)
(***************************************************************************)
StackN == 5
ImgRows == 32
ImgCols == 32
ImgChannels == 3

(***************************************************************************)
(* Tensors and layers.  A layer is its kind, its output shape, its strides *)
(* and its number of parameters.  A tensor is its shape together with the  *)
(* layers created so far to compute it, in creation order; valid is false  *)
(* once an add() has been given two tensors of different shapes.           *)
(***************************************************************************)
Layer(kind, out, stride, params) ==
    [kind |-> kind, out |-> out, stride |-> stride, params |-> params]

CeilDiv(a, s) == (a + s - 1) \div s

\* the output shape of a convolution with padding='same'
ConvShape(in, filters, s) == << CeilDiv(in[1], s), CeilDiv(in[2], s), filters >>

InputLayer(shape) == Layer("InputLayer", shape, 0, 0)

\* Conv2D(filters, kernel_size=(k,k), strides=(s,s), padding='same'), with bias
Conv2D(in, filters, k, s) ==
    Layer("Conv2D", ConvShape(in, filters, s), s, k * k * in[3] * filters + filters)

BatchNormalization(in) == Layer("BatchNormalization", in, 0, 4 * in[3])

Activation(in) == Layer("Activation", in, 0, 0)

GlobalAveragePooling2D(in) == Layer("GlobalAveragePooling2D", << in[3] >>, 0, 0)

Dense(in, units) == Layer("Dense", << units >>, 0, in[1] * units + units)

Add(in) == Layer("Add", in, 0, 0)

Input(shape) == [shape |-> shape, valid |-> TRUE, layers |-> << InputLayer(shape) >>]

residual_block(intput, out_channel, increase) ==
    LET stride     == IF increase THEN 2 ELSE 1
        pre_bn     == BatchNormalization(intput.shape)
        pre_relu   == Activation(pre_bn.out)
        conv_1     == Conv2D(pre_relu.out, out_channel, 3, stride)
        bn_1       == BatchNormalization(conv_1.out)
        relu1      == Activation(bn_1.out)
        conv_2     == Conv2D(relu1.out, out_channel, 3, 1)
        projection == Conv2D(intput.shape, out_channel, 1, 2)
        main       == << pre_bn, pre_relu, conv_1, bn_1, relu1, conv_2 >>
    IN  IF increase
        THEN [shape  |-> conv_2.out,
              valid  |-> intput.valid /\ conv_2.out = projection.out,
              layers |-> intput.layers \o main \o << projection, Add(conv_2.out) >>]
        ELSE [shape  |-> intput.shape,
              valid  |-> intput.valid /\ intput.shape = conv_2.out,
              layers |-> intput.layers \o main \o << Add(intput.shape) >>]

\* for _ in range(n): x = residual_block(x, out_channel, False)
RECURSIVE Repeat(_, _, _)
Repeat(x, out_channel, n) ==
    IF n <= 0 THEN x
    ELSE Repeat(residual_block(x, out_channel, FALSE), out_channel, n - 1)

\* residual_network with the later stages looping range(stack_n), not range(1, stack_n)
residual_network_ExtraBlocks(img_input, classes_num, stack_n) ==
    LET conv0 == Conv2D(img_input.shape, 16, 3, 1)
        x0 == [shape |-> conv0.out, valid |-> img_input.valid,
               layers |-> Append(img_input.layers, conv0)]
        x1 == Repeat(x0, 16, stack_n)
        x2 == Repeat(residual_block(x1, 32, TRUE), 32, stack_n)
        x3 == Repeat(residual_block(x2, 64, TRUE), 64, stack_n)
        bn   == BatchNormalization(x3.shape)
        relu == Activation(bn.out)
        pool == GlobalAveragePooling2D(relu.out)
        out  == Dense(pool.out, classes_num)
    IN  [shape |-> out.out, valid |-> x3.valid,
         layers |-> x3.layers \o << bn, relu, pool, out >>]

residual_network(img_input, classes_num, stack_n) ==
    LET conv0 == Conv2D(img_input.shape, 16, 3, 1)
        x0 == [shape |-> conv0.out, valid |-> img_input.valid,
               layers |-> Append(img_input.layers, conv0)]
        x1 == Repeat(x0, 16, stack_n)
        x2 == Repeat(residual_block(x1, 32, TRUE), 32, stack_n - 1)
        x3 == Repeat(residual_block(x2, 64, TRUE), 64, stack_n - 1)
        bn   == BatchNormalization(x3.shape)
        relu == Activation(bn.out)
        pool == GlobalAveragePooling2D(relu.out)
        out  == Dense(pool.out, classes_num)
    IN  [shape |-> out.out, valid |-> x3.valid,
         layers |-> x3.layers \o << bn, relu, pool, out >>]

\* the sum of the params of ls[lo .. hi]
RECURSIVE SumRange(_, _, _)
SumRange(ls, lo, hi) ==
    IF lo > hi THEN 0
    ELSE IF lo = hi THEN ls[lo].params
    ELSE LET mid == (lo + hi) \div 2
         IN  SumRange(ls, lo, mid) + SumRange(ls, mid + 1, hi)

\* model.count_params()
SumParams(ls) == SumRange(ls, 1, Len(ls))

(***************************************************************************)
(* A model object: its identity, the number of its layers (the last one is *)
(* the output layer, the Dense layer), its number of parameters, the set   *)
(* of indexes of the layers with trainable = False, the learning rate of   *)
(* the optimizer it was compiled with (0 before compile) and the number of *)
(* epochs it has been trained for.  Model.layers lists the layers by their  *)
(* depth in the graph, so the InputLayer is first and the output layer is  *)
(* last whatever the order of creation of the layers between them.         *)
(***************************************************************************)
NoModel == [id |-> 0, nlayers |-> 0, params |-> 0, frozen |-> {}, lr |-> 0, trained |-> 0]

\* Model(img_input, output)
Model(id, output) ==
    [id |-> id, nlayers |-> Len(output.layers), params |-> SumParams(output.layers),
     frozen |-> {}, lr |-> 0, trained |-> 0]

\* the loop over model.layers, not model.layers[:-1]
FreezeAllButLast_All(m) == [m EXCEPT !.frozen = 1 .. m.nlayers]

\* for layer in model.layers[:-1]: layer.trainable = False
FreezeAllButLast(m) == [m EXCEPT !.frozen = 1 .. (m.nlayers - 1)]

\* model.compile(..., optimizer=SGD(learning_rate=lr, ...))
Compile(m, lr) == [m EXCEPT !.lr = lr]

(***************************************************************************)
(* scheduler.  Learning rates are counted in thousandths: 0.1 is 100,      *)
(* 0.01 is 10 and 0.001 is 1.                                              *)
(***************************************************************************)
SchedFirstDrop == 80
SchedSecondDrop == 150
LrHigh == 100
LrMid == 10
LrLow == 1

\* SGD(learning_rate=0.1) of train() and SGD(learning_rate=0.01) of __init__
TrainLr == 100
TransferLr == 10

\* scheduler with the first comparison epoch <= 80
scheduler_OffByOne(epoch) ==
    IF epoch <= SchedFirstDrop THEN LrHigh
    ELSE IF epoch < SchedSecondDrop THEN LrMid
    ELSE LrLow

scheduler(epoch) ==
    IF epoch < SchedFirstDrop THEN LrHigh
    ELSE IF epoch < SchedSecondDrop THEN LrMid
    ELSE LrLow

(***************************************************************************)
(* generate_report.py.  A dict is modelled by the set of its keys, except  *)
(* results, which maps each of its keys to the key set of the entry.       *)
(***************************************************************************)
NumFolds == 5

Digit == << "0", "1", "2", "3", "4", "5", "6", "7", "8", "9" >>

\* str(n), and jinja2's n|string and {{ n }}, of an integer n >= 0
RECURSIVE Str(_)
Str(n) == IF n < 10 THEN Digit[n + 1] ELSE Str(n \div 10) \o Digit[(n % 10) + 1]

\* f'fold_{fold}'
FoldKey(fold) == "fold_" \o Str(fold)

\* 'fold_' + fold|string in the template
TemplateFoldKey(fold) == "fold_" \o Str(fold)

\* the file named by the 0-based fold
PlotPath_ZeroBased(output_dir, fold) ==
    output_dir \o "/confusion_matrix_fold_" \o Str(fold) \o ".png"

\* f'{output_dir}/confusion_matrix_fold_{fold+1}.png'
PlotPath(output_dir, fold) ==
    output_dir \o "/confusion_matrix_fold_" \o Str(fold + 1) \o ".png"

\* f'{output_dir}/confusion_matrix_norm_fold_{fold+1}.png'
NormPlotPath(output_dir, fold) ==
    output_dir \o "/confusion_matrix_norm_fold_" \o Str(fold + 1) \o ".png"

\* f'{output_dir}/svm_results_report.html'
HtmlPath(output_dir) == output_dir \o "/svm_results_report.html"

\* calculate_metrics without the auc entry
calculate_metrics_NoAuc ==
    { "confusion_matrix", "accuracy", "precision", "recall", "f1" }

\* the keys of the dictionary calculate_metrics returns
calculate_metrics ==
    { "confusion_matrix", "accuracy", "precision", "recall", "f1", "auc" }

\* metrics = ['accuracy', 'precision', 'recall', 'f1', 'auc']
metrics == << "accuracy", "precision", "recall", "f1", "auc" >>

\* the keys of overall_metrics
OverallKeys ==
    UNION { { metrics[m] \o "_mean", metrics[m] \o "_std" } : m \in 1 .. Len(metrics) }

\* the attributes of overall_metrics the template formats
TemplateOverall ==
    { "accuracy_mean", "accuracy_std", "precision_mean", "precision_std",
      "recall_mean", "recall_std", "f1_mean", "f1_std", "auc_mean", "auc_std" }

\* the attributes of results['fold_k'] a row of the per-fold table formats
TemplateRow == { "accuracy", "precision", "recall", "f1", "auc" }

\* the section the template renders for one fold of its second loop
TemplateSection(fold) ==
    [title |-> "Fold " \o Str(fold + 1),
     imgs  |-> << "confusion_matrix_fold_" \o Str(fold + 1) \o ".png",
                  "confusion_matrix_norm_fold_" \o Str(fold + 1) \o ".png" >>]

\* template.render(results=results, overall_metrics=...)
Render(results) ==
    [rows     |-> [ f \in 1 .. NumFolds |->
                      [label |-> Str((f - 1) + 1), key |-> TemplateFoldKey(f - 1)] ],
     sections |-> [ f \in 1 .. NumFolds |-> TemplateSection(f - 1) ]]

\* does results[key][field] raise KeyError
Missing(results, key, field) ==
    \/ key \notin DOMAIN results
    \/ field \notin results[key]

VARIABLES
    net_stack_n,      \* SpecNet: the stack_n argument
    net_classes,      \* SpecNet: the classes_num argument
    net_input,        \* SpecNet: the shape of img_input
    net_out,          \* SpecNet: the tensor residual_network returned, or NoTensor
    sched_epochs,     \* SpecSched: the number of epochs fit runs
    sched_epoch,      \* SpecSched: the epoch that begins next
    sched_lr,         \* SpecSched: the optimizer's learning rate
    sched_prev,       \* SpecSched: the learning rate of the epoch before
    rep_pc,           \* SpecReport: the position of the caller / of generate_html_report
    rep_results,      \* SpecReport: the results dict
    rep_from_calc,    \* SpecReport: the keys of results whose entry calculate_metrics returned
    rep_manual,       \* SpecReport: how many entries the caller wrote by hand
    rep_dir,          \* SpecReport: output_dir
    rep_fold,         \* SpecReport: the loop variable fold of the plotting loop
    rep_reads,        \* SpecReport: the pairs << key, field >> read from results so far
    rep_written,      \* SpecReport: the files written so far, in order, each with the key it shows
    rep_overall,      \* SpecReport: the keys of overall_metrics
    rep_html,         \* SpecReport: html_content
    pc,               \* Spec: the position of the program
    load_weights,     \* Spec: the constructor's argument
    transfer_learning,\* Spec: the constructor's argument
    num_classes,      \* Spec: the constructor's argument
    epochs,           \* Spec: the constructor's argument
    constructed,      \* Spec: the constructor has returned an object
    load_outcome,     \* Spec: what load_weights did: "not_tried", "ok" or the exception
    ctor_train,       \* Spec: the train() call of the constructor: "none", "running", "returned", "raised"
    ctor_train_calls, \* Spec: how many times the constructor has called train()
    self_model,       \* Spec: self._model
    param_count,      \* Spec: self.param_count, 0 while unset
    file,             \* Spec: what self.model_filename holds
    next_id,          \* Spec: the identity of the next model object
    caller,           \* Spec: who called train(): "ctor", "client" or "none"
    client_calls,     \* Spec: how many times the client has called train()
    model_at_call,    \* Spec: self._model when train() was called
    resnet,           \* Spec: the local resnet of train()
    epoch,            \* Spec: the epoch of fit
    best,             \* Spec: the best val_loss the checkpoint callback has seen
    val_hist,         \* Spec: the val_loss of the epochs of this fit, in order
    ckpt_epochs,      \* Spec: the epochs (1-based) of this fit at whose end the checkpoint wrote
    fitted            \* Spec: the identities of the models this train() has fitted

netVars == << net_stack_n, net_classes, net_input, net_out >>
schedVars == << sched_epochs, sched_epoch, sched_lr, sched_prev >>

repVars == << rep_pc, rep_results, rep_from_calc, rep_manual, rep_dir, rep_fold,
             rep_reads, rep_written, rep_overall, rep_html >>

objVars == << pc, load_weights, transfer_learning, num_classes, epochs, constructed,
             load_outcome, ctor_train, ctor_train_calls, self_model, param_count, file,
             next_id, caller, client_calls, model_at_call, resnet, epoch, best,
             val_hist, ckpt_epochs, fitted >>

vars == << netVars, schedVars, repVars, objVars >>

(***************************************************************************)
(* SpecNet: residual_network applied to arguments drawn from bounded sets. *)
(***************************************************************************)
NoTensor == [shape |-> << >>, valid |-> FALSE, layers |-> << >>]

ImgSides == (ImgRows - MaxShrink) .. ImgRows

NetIdle ==
    /\ net_stack_n = 0
    /\ net_classes = 0
    /\ net_input = << >>
    /\ net_out = NoTensor

NetInit ==
    /\ net_stack_n \in 0 .. MaxStack
    /\ net_classes \in 1 .. MaxClasses
    /\ net_input \in { << s, s, c >> : s \in ImgSides, c \in {1, ImgChannels} }
    /\ net_out = NoTensor

CallResidualNetwork ==
    /\ net_out = NoTensor
    /\ net_out' = residual_network(Input(net_input), net_classes, net_stack_n)
    /\ UNCHANGED << net_stack_n, net_classes, net_input >>
    /\ UNCHANGED << schedVars, repVars, objVars >>

(***************************************************************************)
(* SpecSched: the LearningRateScheduler callback of train() sets the       *)
(* learning rate to scheduler(epoch) when epoch 0, 1, ... begins; the      *)
(* optimizer starts at learning_rate=0.1.                                  *)
(***************************************************************************)
SchedIdle ==
    /\ sched_epochs = 0
    /\ sched_epoch = 0
    /\ sched_lr = 0
    /\ sched_prev = 0

SchedInit ==
    /\ sched_epochs \in 0 .. MaxSchedEpochs
    /\ sched_epoch = 0
    /\ sched_lr = TrainLr
    /\ sched_prev = TrainLr

SchedEpochBegin ==
    /\ sched_epoch < sched_epochs
    /\ sched_lr' = scheduler(sched_epoch)
    /\ sched_prev' = sched_lr
    /\ sched_epoch' = sched_epoch + 1
    /\ UNCHANGED sched_epochs
    /\ UNCHANGED << netVars, repVars, objVars >>

(***************************************************************************)
(* SpecReport: a caller fills results, entry by entry, from                *)
(* calculate_metrics or by hand (as the __main__ block does), and calls    *)
(* generate_html_report.                                                   *)
(***************************************************************************)
NoHtml == [rows |-> << >>, sections |-> << >>]

EmptyDict == [ k \in {} |-> {} ]

\* the entries a caller may write by hand: all keys, or all keys but one
ReportKeys == { "confusion_matrix" } \cup TemplateRow

ManualEntries == { ReportKeys } \cup { ReportKeys \ {k} : k \in ReportKeys }

OutputDirs == { "SVM/results", "out" }

RepIdle ==
    /\ rep_pc = "idle"
    /\ rep_results = EmptyDict
    /\ rep_from_calc = {}
    /\ rep_manual = 0
    /\ rep_dir = ""
    /\ rep_fold = 0
    /\ rep_reads = {}
    /\ rep_written = << >>
    /\ rep_overall = {}
    /\ rep_html = NoHtml

RepInit ==
    /\ rep_pc = "collect"
    /\ rep_results = EmptyDict
    /\ rep_from_calc = {}
    /\ rep_manual = 0
    /\ rep_dir \in OutputDirs
    /\ rep_fold = 0
    /\ rep_reads = {}
    /\ rep_written = << >>
    /\ rep_overall = {}
    /\ rep_html = NoHtml

Put(d, k, v) == [ x \in DOMAIN d \cup {k} |-> IF x = k THEN v ELSE d[x] ]

\* results[f'fold_{fold}'] = calculate_metrics(y_true, y_pred, y_prob)
StoreCalculated(fold) ==
    /\ rep_pc = "collect"
    /\ FoldKey(fold) \notin DOMAIN rep_results
    /\ rep_results' = Put(rep_results, FoldKey(fold), calculate_metrics)
    /\ rep_from_calc' = rep_from_calc \cup { FoldKey(fold) }
    /\ UNCHANGED << rep_pc, rep_manual, rep_dir, rep_fold, rep_reads, rep_written,
                    rep_overall, rep_html >>
    /\ UNCHANGED << netVars, schedVars, objVars >>

\* results[f'fold_{fold}'] = { ... }
StoreManual(fold, entry) ==
    /\ rep_pc = "collect"
    /\ rep_manual < MaxManual
    /\ FoldKey(fold) \notin DOMAIN rep_results
    /\ rep_results' = Put(rep_results, FoldKey(fold), entry)
    /\ rep_manual' = rep_manual + 1
    /\ UNCHANGED << rep_pc, rep_from_calc, rep_dir, rep_fold, rep_reads, rep_written,
                    rep_overall, rep_html >>
    /\ UNCHANGED << netVars, schedVars, objVars >>

\* generate_html_report(results, output_dir): os.makedirs, then the loop begins
CallReport ==
    /\ rep_pc = "collect"
    /\ rep_pc' = "plot"
    /\ rep_fold' = 0
    /\ UNCHANGED << rep_results, rep_from_calc, rep_manual, rep_dir, rep_reads,
                    rep_written, rep_overall, rep_html >>
    /\ UNCHANGED << netVars, schedVars, objVars >>

\* one savefig of the loop body: read results[f'fold_{fold}']['confusion_matrix'],
\* plot it and save it under path
SaveFig(at, path, next_pc, next_fold) ==
    /\ rep_pc = at
    /\ rep_fold < NumFolds
    /\ rep_reads' = rep_reads \cup { << FoldKey(rep_fold), "confusion_matrix" >> }
    /\ IF Missing(rep_results, FoldKey(rep_fold), "confusion_matrix")
       THEN /\ rep_pc' = "KeyError"
            /\ UNCHANGED << rep_fold, rep_written >>
       ELSE /\ rep_written' = Append(rep_written,
                                     [path |-> path, shows |-> FoldKey(rep_fold)])
            /\ rep_pc' = next_pc
            /\ rep_fold' = next_fold
    /\ UNCHANGED << rep_results, rep_from_calc, rep_manual, rep_dir, rep_overall, rep_html >>
    /\ UNCHANGED << netVars, schedVars, objVars >>

SavePlot == SaveFig("plot", PlotPath(rep_dir, rep_fold), "plot_norm", rep_fold)

SaveNormPlot == SaveFig("plot_norm", NormPlotPath(rep_dir, rep_fold), "plot", rep_fold + 1)

\* for metric in metrics: values = [results[f'fold_{i}'][metric] for i in range(5)]
\* the n-th read of the loops, n = 0, 1, ...: metric by metric, fold by fold
OverallRead(n) == << FoldKey(n % NumFolds), metrics[(n \div NumFolds) + 1] >>

OverallCount == NumFolds * Len(metrics)

OverallMetrics ==
    /\ rep_pc = "plot"
    /\ rep_fold = NumFolds
    /\ LET bad == { n \in 0 .. OverallCount - 1 :
                      Missing(rep_results, OverallRead(n)[1], OverallRead(n)[2]) }
       IN  IF bad # {}
           THEN LET first == CHOOSE n \in bad : \A m \in bad : n <= m
                IN  /\ rep_pc' = "KeyError"
                    /\ rep_reads' = rep_reads \cup { OverallRead(m) : m \in 0 .. first }
                    /\ UNCHANGED rep_overall
           ELSE /\ rep_pc' = "render"
                /\ rep_reads' = rep_reads \cup
                                { OverallRead(m) : m \in 0 .. OverallCount - 1 }
                /\ rep_overall' = OverallKeys
    /\ UNCHANGED << rep_results, rep_from_calc, rep_manual, rep_dir, rep_fold,
                    rep_written, rep_html >>
    /\ UNCHANGED << netVars, schedVars, objVars >>

\* html_content = template.render(...): an attribute the template formats and
\* does not find is Undefined, and "%.4f"|format of it raises TypeError
RenderReads ==
    { << TemplateFoldKey(i), a >> : i \in 0 .. NumFolds - 1, a \in TemplateRow }

RenderHtml ==
    /\ rep_pc = "render"
    /\ rep_reads' = rep_reads \cup RenderReads
    /\ IF \/ ~ (TemplateOverall \subseteq rep_overall)
          \/ \E r \in RenderReads : Missing(rep_results, r[1], r[2])
       THEN /\ rep_pc' = "TypeError"
            /\ UNCHANGED rep_html
       ELSE /\ rep_pc' = "write"
            /\ rep_html' = Render(rep_results)
    /\ UNCHANGED << rep_results, rep_from_calc, rep_manual, rep_dir, rep_fold,
                    rep_written, rep_overall >>
    /\ UNCHANGED << netVars, schedVars, objVars >>

\* with open(f'{output_dir}/svm_results_report.html', 'w') as f: f.write(html_content)
WriteHtml ==
    /\ rep_pc = "write"
    /\ rep_written' = Append(rep_written, [path |-> HtmlPath(rep_dir), shows |-> ""])
    /\ rep_pc' = "done"
    /\ UNCHANGED << rep_results, rep_from_calc, rep_manual, rep_dir, rep_fold,
                    rep_reads, rep_overall, rep_html >>
    /\ UNCHANGED << netVars, schedVars, objVars >>

(***************************************************************************)
(* Spec: one ResNet object.  The constructor builds the network and, if    *)
(* load_weights, loads the weights file; load_weights of the framework     *)
(* succeeds or raises, depending on the file system.  train() is called by *)
(* the constructor's except clause and by the client of the object.  The   *)
(* calls into the framework that read data or write files (load_data, fit, *)
(* save) return or raise.  The callbacks other than LearningRateScheduler   *)
(* and ModelCheckpoint (TensorBoard, PlotLearning) only log and plot: they *)
(* do not write model_filename and are left out.                           *)
(***************************************************************************)
Caught == { "ImportError", "ValueError", "OSError" }

Inf == MaxLoss + 1

\* the file as it is before the program runs
InitialFile == [model |-> 0, trained |-> 0, by |-> "none"]

Snapshot(m, by) == [model |-> m.id, trained |-> m.trained, by |-> by]

NewNetwork(id) ==
    Model(id, residual_network(Input(<< ImgRows, ImgCols, ImgChannels >>),
                               num_classes, StackN))

ObjIdle ==
    /\ pc = "idle"
    /\ load_weights = FALSE
    /\ transfer_learning = FALSE
    /\ num_classes = 0
    /\ epochs = 0
    /\ constructed = FALSE
    /\ load_outcome = "not_tried"
    /\ ctor_train = "none"
    /\ ctor_train_calls = 0
    /\ self_model = NoModel
    /\ param_count = 0
    /\ file = InitialFile
    /\ next_id = 1
    /\ caller = "none"
    /\ client_calls = 0
    /\ model_at_call = NoModel
    /\ resnet = NoModel
    /\ epoch = 0
    /\ best = Inf
    /\ val_hist = << >>
    /\ ckpt_epochs = {}
    /\ fitted = {}

ObjInit ==
    /\ pc = "ctor"
    /\ load_weights \in BOOLEAN
    /\ transfer_learning \in BOOLEAN
    /\ num_classes \in 1 .. MaxClasses
    /\ epochs \in 0 .. MaxEpochs
    /\ constructed = FALSE
    /\ load_outcome = "not_tried"
    /\ ctor_train = "none"
    /\ ctor_train_calls = 0
    /\ self_model = NoModel
    /\ param_count = 0
    /\ file = InitialFile
    /\ next_id = 1
    /\ caller = "none"
    /\ client_calls = 0
    /\ model_at_call = NoModel
    /\ resnet = NoModel
    /\ epoch = 0
    /\ best = Inf
    /\ val_hist = << >>
    /\ ckpt_epochs = {}
    /\ fitted = {}

trainLocals == << resnet, epoch, best, val_hist, ckpt_epochs, fitted >>
ctorArgs == << load_weights, transfer_learning, num_classes, epochs >>

\* __init__ up to the if: the fields, the directories, self._model = Model(...)
CtorBuild ==
    /\ pc = "ctor"
    /\ self_model' = NewNetwork(next_id)
    /\ next_id' = next_id + 1
    /\ pc' = IF load_weights THEN "ctor_load" ELSE "ctor_return"
    /\ UNCHANGED << ctorArgs, constructed, load_outcome, ctor_train, ctor_train_calls,
                    param_count, file, caller, client_calls, model_at_call, trainLocals >>
    /\ UNCHANGED << netVars, schedVars, repVars >>

\* the try block when load_weights returns: freeze and recompile if transfer_learning
CtorLoadOk ==
    /\ pc = "ctor_load"
    /\ load_outcome' = "ok"
    /\ self_model' = IF transfer_learning
                     THEN Compile(FreezeAllButLast(self_model), TransferLr)
                     ELSE self_model
    /\ pc' = "ctor_return"
    /\ UNCHANGED << ctorArgs, constructed, ctor_train, ctor_train_calls, param_count,
                    file, next_id, caller, client_calls, model_at_call, trainLocals >>
    /\ UNCHANGED << netVars, schedVars, repVars >>

\* an except clause that swallows the exception and does not train
CtorLoadCaught_NoTrain(exc) ==
    /\ pc = "ctor_load"
    /\ load_outcome' = exc
    /\ pc' = "ctor_return"
    /\ UNCHANGED << ctorArgs, constructed, ctor_train, ctor_train_calls, self_model,
                    param_count, file, next_id, caller, client_calls, model_at_call,
                    trainLocals >>
    /\ UNCHANGED << netVars, schedVars, repVars >>

\* load_weights raises exc, the except clause catches it and calls self.train()
CtorLoadCaught(exc) ==
    /\ pc = "ctor_load"
    /\ load_outcome' = exc
    /\ ctor_train' = "running"
    /\ ctor_train_calls' = ctor_train_calls + 1
    /\ caller' = "ctor"
    /\ model_at_call' = self_model
    /\ pc' = "train_data"
    /\ UNCHANGED << ctorArgs, constructed, self_model, param_count, file, next_id,
                    client_calls, trainLocals >>
    /\ UNCHANGED << netVars, schedVars, repVars >>

\* load_weights raises an exception the except clause does not name
CtorLoadUncaught ==
    /\ pc = "ctor_load"
    /\ load_outcome' = "Other"
    /\ pc' = "ctor_raised"
    /\ UNCHANGED << ctorArgs, constructed, ctor_train, ctor_train_calls, self_model,
                    param_count, file, next_id, caller, client_calls, model_at_call,
                    trainLocals >>
    /\ UNCHANGED << netVars, schedVars, repVars >>

\* __init__ returns
CtorReturn ==
    /\ pc = "ctor_return"
    /\ constructed' = TRUE
    /\ pc' = "ready"
    /\ UNCHANGED << ctorArgs, load_outcome, ctor_train, ctor_train_calls, self_model,
                    param_count, file, next_id, caller, client_calls, model_at_call,
                    trainLocals >>
    /\ UNCHANGED << netVars, schedVars, repVars >>

\* the client calls train(...) on the object
ClientTrain ==
    /\ pc = "ready"
    /\ client_calls < MaxTrainCalls
    /\ client_calls' = client_calls + 1
    /\ caller' = "client"
    /\ model_at_call' = self_model
    /\ pc' = "train_data"
    /\ UNCHANGED << ctorArgs, constructed, load_outcome, ctor_train, ctor_train_calls,
                    self_model, param_count, file, next_id, trainLocals >>
    /\ UNCHANGED << netVars, schedVars, repVars >>

\* an exception leaves train()
Raise ==
    /\ pc' = "train_raise"
    /\ UNCHANGED << ctorArgs, constructed, load_outcome, ctor_train, ctor_train_calls,
                    self_model, param_count, file, next_id, caller, client_calls,
                    model_at_call, trainLocals >>

\* train() up to the build: load_data / to_categorical, color_preprocessing
TrainLoadData ==
    /\ pc = "train_data"
    /\ pc' = "train_build"
    /\ UNCHANGED << ctorArgs, constructed, load_outcome, ctor_train, ctor_train_calls,
                    self_model, param_count, file, next_id, caller, client_calls,
                    model_at_call, trainLocals >>
    /\ UNCHANGED << netVars, schedVars, repVars >>

TrainLoadDataRaises ==
    /\ pc = "train_data"
    /\ Raise
    /\ UNCHANGED << netVars, schedVars, repVars >>

\* a train() that compiles and fits self._model instead of a new network
TrainBuild_Reuse ==
    /\ pc = "train_build"
    /\ resnet' = Compile(self_model, TrainLr)
    /\ epoch' = 0
    /\ best' = Inf
    /\ val_hist' = << >>
    /\ ckpt_epochs' = {}
    /\ fitted' = {}
    /\ pc' = "fit_begin"
    /\ UNCHANGED << ctorArgs, constructed, load_outcome, ctor_train, ctor_train_calls,
                    self_model, param_count, file, next_id, caller, client_calls,
                    model_at_call >>
    /\ UNCHANGED << netVars, schedVars, repVars >>

\* resnet = Model(...); resnet.compile(SGD(learning_rate=0.1)); the callbacks
TrainBuild ==
    /\ pc = "train_build"
    /\ resnet' = Compile(NewNetwork(next_id), TrainLr)
    /\ next_id' = next_id + 1
    /\ epoch' = 0
    /\ best' = Inf
    /\ val_hist' = << >>
    /\ ckpt_epochs' = {}
    /\ fitted' = {}
    /\ pc' = "fit_begin"
    /\ UNCHANGED << ctorArgs, constructed, load_outcome, ctor_train, ctor_train_calls,
                    self_model, param_count, file, caller, client_calls, model_at_call >>
    /\ UNCHANGED << netVars, schedVars, repVars >>

\* fit, an epoch begins: LearningRateScheduler sets the learning rate
FitEpochBegin ==
    /\ pc = "fit_begin"
    /\ epoch < epochs
    /\ resnet' = [resnet EXCEPT !.lr = scheduler(epoch)]
    /\ fitted' = fitted \cup { resnet.id }
    /\ pc' = "fit_end"
    /\ UNCHANGED << ctorArgs, constructed, load_outcome, ctor_train, ctor_train_calls,
                    self_model, param_count, file, next_id, caller, client_calls,
                    model_at_call, epoch, best, val_hist, ckpt_epochs >>
    /\ UNCHANGED << netVars, schedVars, repVars >>

\* fit, the epoch ends with val_loss v: ModelCheckpoint(monitor='val_loss',
\* save_best_only=True) saves the model if v is less than the best so far
FitEpochEnd(v) ==
    /\ pc = "fit_end"
    /\ resnet' = [resnet EXCEPT !.trained = resnet.trained + 1]
    /\ val_hist' = Append(val_hist, v)
    /\ IF v < best
       THEN /\ best' = v
            /\ file' = Snapshot(resnet', "checkpoint")
            /\ ckpt_epochs' = ckpt_epochs \cup { epoch + 1 }
       ELSE UNCHANGED << best, file, ckpt_epochs >>
    /\ epoch' = epoch + 1
    /\ pc' = "fit_begin"
    /\ UNCHANGED << ctorArgs, constructed, load_outcome, ctor_train, ctor_train_calls,
                    self_model, param_count, next_id, caller, client_calls,
                    model_at_call, fitted >>
    /\ UNCHANGED << netVars, schedVars, repVars >>

\* fit raises
FitRaises ==
    /\ pc \in { "fit_begin", "fit_end" }
    /\ Raise
    /\ UNCHANGED << netVars, schedVars, repVars >>

\* fit returns
FitReturn ==
    /\ pc = "fit_begin"
    /\ epoch = epochs
    /\ fitted' = fitted \cup { resnet.id }
    /\ pc' = "train_save"
    /\ UNCHANGED << ctorArgs, constructed, load_outcome, ctor_train, ctor_train_calls,
                    self_model, param_count, file, next_id, caller, client_calls,
                    model_at_call, resnet, epoch, best, val_hist, ckpt_epochs >>
    /\ UNCHANGED << netVars, schedVars, repVars >>

\* a train() without the save after fit
TrainSave_Skip ==
    /\ pc = "train_save"
    /\ pc' = "train_assign"
    /\ UNCHANGED << ctorArgs, constructed, load_outcome, ctor_train, ctor_train_calls,
                    self_model, param_count, file, next_id, caller, client_calls,
                    model_at_call, trainLocals >>
    /\ UNCHANGED << netVars, schedVars, repVars >>

\* resnet.save(self.model_filename)
TrainSave ==
    /\ pc = "train_save"
    /\ file' = Snapshot(resnet, "save")
    /\ pc' = "train_assign"
    /\ UNCHANGED << ctorArgs, constructed, load_outcome, ctor_train, ctor_train_calls,
                    self_model, param_count, next_id, caller, client_calls,
                    model_at_call, trainLocals >>
    /\ UNCHANGED << netVars, schedVars, repVars >>

TrainSaveRaises ==
    /\ pc = "train_save"
    /\ Raise
    /\ UNCHANGED << netVars, schedVars, repVars >>

\* self._model = resnet; self.param_count = self._model.count_params()
TrainAssign ==
    /\ pc = "train_assign"
    /\ self_model' = resnet
    /\ param_count' = resnet.params
    /\ pc' = "train_return"
    /\ UNCHANGED << ctorArgs, constructed, load_outcome, ctor_train, ctor_train_calls,
                    file, next_id, caller, client_calls, model_at_call, trainLocals >>
    /\ UNCHANGED << netVars, schedVars, repVars >>

\* train() returns to its caller; its locals are gone
TrainReturn ==
    /\ pc = "train_return"
    /\ pc' = IF caller = "ctor" THEN "ctor_return" ELSE "ready"
    /\ ctor_train' = IF caller = "ctor" THEN "returned" ELSE ctor_train
    /\ caller' = "none"
    /\ model_at_call' = NoModel
    /\ resnet' = NoModel
    /\ epoch' = 0
    /\ best' = Inf
    /\ val_hist' = << >>
    /\ ckpt_epochs' = {}
    /\ fitted' = {}
    /\ UNCHANGED << ctorArgs, constructed, load_outcome, ctor_train_calls, self_model,
                    param_count, file, next_id, client_calls >>
    /\ UNCHANGED << netVars, schedVars, repVars >>

\* the exception leaves train(): out of the constructor, which has no handler
\* for it, or to the client
TrainUnwind ==
    /\ pc = "train_raise"
    /\ pc' = IF caller = "ctor" THEN "ctor_raised" ELSE "ready"
    /\ ctor_train' = IF caller = "ctor" THEN "raised" ELSE ctor_train
    /\ caller' = "none"
    /\ model_at_call' = NoModel
    /\ resnet' = NoModel
    /\ epoch' = 0
    /\ best' = Inf
    /\ val_hist' = << >>
    /\ ckpt_epochs' = {}
    /\ fitted' = {}
    /\ UNCHANGED << ctorArgs, constructed, load_outcome, ctor_train_calls, self_model,
                    param_count, file, next_id, client_calls >>
    /\ UNCHANGED << netVars, schedVars, repVars >>

(***************************************************************************)
(* The specifications.                                                     *)
(***************************************************************************)
InitNet == NetInit /\ SchedIdle /\ RepIdle /\ ObjIdle

NetNext == CallResidualNetwork

SpecNet == InitNet /\ [][NetNext]_vars

InitSched == SchedInit /\ NetIdle /\ RepIdle /\ ObjIdle

SchedNext == SchedEpochBegin

SpecSched == InitSched /\ [][SchedNext]_vars

InitReport == RepInit /\ NetIdle /\ SchedIdle /\ ObjIdle

RepNext ==
    \/ \E fold \in 0 .. NumFolds - 1 : StoreCalculated(fold)
    \/ \E fold \in 0 .. NumFolds - 1, entry \in ManualEntries : StoreManual(fold, entry)
    \/ CallReport
    \/ SavePlot
    \/ SaveNormPlot
    \/ OverallMetrics
    \/ RenderHtml
    \/ WriteHtml

SpecReport == InitReport /\ [][RepNext]_vars

Init == ObjInit /\ NetIdle /\ SchedIdle /\ RepIdle

Next ==
    \/ CtorBuild
    \/ CtorLoadOk
    \/ \E exc \in Caught : CtorLoadCaught(exc)
    \/ CtorLoadUncaught
    \/ CtorReturn
    \/ ClientTrain
    \/ TrainLoadData
    \/ TrainLoadDataRaises
    \/ TrainBuild
    \/ FitEpochBegin
    \/ \E v \in 1 .. MaxLoss : FitEpochEnd(v)
    \/ FitRaises
    \/ FitReturn
    \/ TrainSave
    \/ TrainSaveRaises
    \/ TrainAssign
    \/ TrainReturn
    \/ TrainUnwind

Spec == Init /\ [][Next]_vars

(***************************************************************************)
(* Claims about residual_network (SpecNet).                                *)
(***************************************************************************)
OfKind(t, kinds) == SelectSeq(t.layers, LAMBDA l : l.kind \in kinds)

NetBuilt == net_out # NoTensor

\* the output shape of the i-th residual block (of the first Conv2D for i = 0)
BlockOut(t, i) ==
    IF i = 0 THEN OfKind(t, {"Conv2D"})[1].out ELSE OfKind(t, {"Add"})[i].out

Downsampling(t) ==
    { i \in 1 .. Len(OfKind(t, {"Add"})) : BlockOut(t, i)[1] < BlockOut(t, i - 1)[1] }

\* C6: for every stack_n >= 1 the network residual_network builds has
\* stack_n * 3 * 2 + 2 weighted layers in total, its Conv2D layers plus its
\* final Dense layer.
C6_TotalLayers ==
    (NetBuilt /\ net_stack_n >= 1) =>
        Len(OfKind(net_out, {"Conv2D", "Dense"})) = net_stack_n * 3 * 2 + 2

\* C7: for every stack_n >= 1, residual_network on a 32x32x3 input runs
\* 3 * stack_n residual blocks, exactly two of which downsample (the first of
\* the second stage and the first of the third); the tensor is 32x32x16 after
\* the first stage, 16x16x32 after the second, 8x8x64 after the third, is
\* pooled to a 64-vector and ends in a Dense output of classes_num values.
C7_StageShapes ==
    (NetBuilt /\ net_stack_n >= 1 /\ net_input = << 32, 32, 3 >>) =>
        LET n == net_stack_n
            L == net_out.layers
        IN  /\ net_out.valid
            /\ Len(OfKind(net_out, {"Add"})) = 3 * n
            /\ Downsampling(net_out) = { n + 1, 2 * n + 1 }
            /\ BlockOut(net_out, n) = << 32, 32, 16 >>
            /\ BlockOut(net_out, 2 * n) = << 16, 16, 32 >>
            /\ BlockOut(net_out, 3 * n) = << 8, 8, 64 >>
            /\ L[Len(L) - 1].kind = "GlobalAveragePooling2D"
            /\ L[Len(L) - 1].out = << 64 >>
            /\ L[Len(L)].kind = "Dense"
            /\ L[Len(L)].out = << net_classes >>
            /\ net_out.shape = << net_classes >>

C7_Witness ==
    /\ NetBuilt
    /\ net_stack_n = 5
    /\ net_input = << 32, 32, 3 >>
    /\ Len(OfKind(net_out, {"Add"})) = 15

(***************************************************************************)
(* Claims about scheduler (SpecSched).                                     *)
(***************************************************************************)
\* C5: scheduler(epoch) is 0.1 for epoch < 80, 0.01 for 80 <= epoch < 150 and
\* 0.001 for epoch >= 150; over the epochs of a run the learning rate never
\* increases and changes value only at epochs 80 and 150.
C5_Scheduler ==
    sched_epoch >= 1 =>
        LET e == sched_epoch - 1
        IN  /\ e < 80 => sched_lr = 100
            /\ (80 <= e /\ e < 150) => sched_lr = 10
            /\ e >= 150 => sched_lr = 1
            /\ sched_lr <= sched_prev
            /\ sched_lr # sched_prev => e \in {80, 150}

C5_Witness ==
    /\ sched_epoch = 151
    /\ sched_lr = 1
    /\ sched_prev = 10

(***************************************************************************)
(* Claims about the ResNet object (Spec).                                  *)
(***************************************************************************)
CtorOver == constructed \/ pc = "ctor_raised"

InTrain ==
    pc \in { "train_data", "train_build", "fit_begin", "fit_end", "train_save",
             "train_assign" }

\* C1 as stated: the constructor handles only the failure of weight loading; if
\* load_weights is true and loading raises ImportError, ValueError or OSError the
\* constructor calls train() exactly once and construction completes; if
\* loading succeeds train() is not called; if load_weights is false neither
\* loading nor training is attempted.
C1_AsStated ==
    /\ ctor_train_calls <= 1
    /\ ~ load_weights => (load_outcome = "not_tried" /\ ctor_train_calls = 0)
    /\ load_outcome \in { "ok", "Other" } => ctor_train_calls = 0
    /\ (load_weights /\ load_outcome \in { "ImportError", "ValueError", "OSError" }) =>
           /\ ctor_train_calls = 1
           /\ CtorOver => constructed

\* C1, amended: as C1, but after a caught loading failure construction
\* completes exactly if the constructor's train() call returns; an exception
\* raised in train(), like an exception of another type raised by loading,
\* leaves the constructor.
C1_CtorFailureHandling ==
    /\ ctor_train_calls <= 1
    /\ ~ load_weights => (load_outcome = "not_tried" /\ ctor_train_calls = 0)
    /\ load_outcome \in { "ok", "Other" } => ctor_train_calls = 0
    /\ (load_weights /\ CtorOver) => load_outcome # "not_tried"
    /\ (load_weights /\ load_outcome \in { "ImportError", "ValueError", "OSError" }) =>
           /\ ctor_train_calls = 1
           /\ constructed => ctor_train = "returned"
           /\ pc = "ctor_raised" => ctor_train = "raised"
           /\ ctor_train = "returned" => pc # "ctor_raised"
    /\ (CtorOver /\ load_outcome \in { "ok", "not_tried" }) => constructed
    /\ load_outcome = "Other" => ~ constructed

C1_Witness ==
    /\ constructed
    /\ load_weights
    /\ load_outcome = "OSError"
    /\ ctor_train_calls = 1
    /\ ctor_train = "returned"

\* C4: the constructor freezes layers only if load_weights and
\* transfer_learning are true and loading succeeded, and then it freezes every
\* layer but the last, which stays trainable; in every other case, also with
\* transfer_learning and no load_weights and when loading fails and train() runs
\* instead, the model it leaves has no frozen layer.
C4_FreezeAllButLast ==
    client_calls = 0 =>
        /\ self_model.frozen # {} <=>
               /\ pc \in { "ctor_return", "ready" }
               /\ load_weights /\ transfer_learning /\ load_outcome = "ok"
        /\ self_model.frozen # {} =>
               /\ self_model.nlayers \notin self_model.frozen
               /\ self_model.frozen = 1 .. (self_model.nlayers - 1)
               /\ self_model.nlayers >= 2

C4_Witness ==
    /\ pc = "ctor_return"
    /\ transfer_learning
    /\ load_outcome = "ok"
    /\ self_model.nlayers = 113
    /\ self_model.frozen = 1 .. 112

\* C8: train() never fits the model self._model holds when it is called: it
\* builds a new network with every layer trainable, fits it, saves it and
\* only then assigns it to self._model and sets param_count; so when train()
\* returns no layer of self._model is frozen and the model held before is no
\* longer referenced, and when train() raises self._model is unchanged.
C8_TrainReplacesModel ==
    /\ (InTrain \/ pc = "train_raise") =>
           /\ self_model = model_at_call
           /\ model_at_call.id \notin fitted
    /\ pc = "train_return" =>
           /\ self_model = resnet
           /\ self_model.id # model_at_call.id
           /\ self_model.frozen = {}
           /\ fitted = { self_model.id }
           /\ file = [model |-> self_model.id, trained |-> self_model.trained, by |-> "save"]
           /\ param_count = self_model.params

C8_Witness ==
    /\ pc = "train_return"
    /\ caller = "client"
    /\ transfer_learning
    /\ load_outcome = "ok"
    /\ model_at_call.frozen # {}
    /\ self_model.trained >= 1

\* C9: during train() the checkpoint callback writes model_filename only at
\* the end of an epoch whose val_loss is less than that of every earlier
\* epoch, and the save after fit writes the same file last; so when train()
\* returns the file holds the model as it is after the last epoch, also when
\* an earlier epoch had a lower val_loss.
C9_FinalSaveWins ==
    /\ \A e \in ckpt_epochs :
           /\ e \in 1 .. Len(val_hist)
           /\ \A j \in 1 .. (e - 1) : val_hist[e] < val_hist[j]
    /\ (pc \in { "fit_begin", "fit_end", "train_save" } /\ file.model = resnet.id) =>
           /\ file.by = "checkpoint"
           /\ file.trained \in ckpt_epochs
    /\ pc \in { "train_assign", "train_return" } =>
           file = [model |-> resnet.id, trained |-> epochs, by |-> "save"]

C9_Witness ==
    /\ pc = "train_return"
    /\ Len(val_hist) >= 2
    /\ val_hist[1] < val_hist[Len(val_hist)]
    /\ ckpt_epochs = { 1 }
    /\ file.trained = Len(val_hist)

(***************************************************************************)
(* Claims about the report (SpecReport).                                   *)
(***************************************************************************)
FoldKeys == << "fold_0", "fold_1", "fold_2", "fold_3", "fold_4" >>

FoldNumbers == << "1", "2", "3", "4", "5" >>

SixKeys == { "confusion_matrix", "accuracy", "precision", "recall", "f1", "auc" }

Complete ==
    \A i \in 1 .. 5 :
        /\ FoldKeys[i] \in DOMAIN rep_results
        /\ SixKeys \subseteq rep_results[FoldKeys[i]]

PathsWritten(n) == { rep_written[i].path : i \in 1 .. n }

\* the files the img elements of the HTML name, the HTML being in rep_dir
Referenced ==
    { rep_dir \o "/" \o rep_html.sections[f].imgs[i] :
          f \in DOMAIN rep_html.sections, i \in 1 .. 2 }

\* C2: for results with complete entries fold_0..fold_4, the HTML file is
\* written only after all PNGs, and the image files the HTML references are
\* exactly the PNG files written: ten files, two per fold, the entry fold_i
\* shown in the files with suffix i+1 and in the HTML section of fold i+1.
C2_HtmlAfterPngs ==
    Complete =>
        /\ \A i \in 1 .. Len(rep_written) :
               rep_written[i].path = rep_dir \o "/svm_results_report.html" =>
                   /\ i = 11
                   /\ Cardinality(PathsWritten(10)) = 10
        /\ rep_pc = "done" =>
               /\ Len(rep_written) = 11
               /\ rep_written[11].path = rep_dir \o "/svm_results_report.html"
               /\ Referenced = PathsWritten(10)
               /\ Cardinality(Referenced) = 10
               /\ \A i \in 1 .. 5 :
                      /\ rep_written[2 * i - 1] =
                             [path  |-> rep_dir \o "/confusion_matrix_fold_"
                                                \o FoldNumbers[i] \o ".png",
                              shows |-> FoldKeys[i]]
                      /\ rep_written[2 * i] =
                             [path  |-> rep_dir \o "/confusion_matrix_norm_fold_"
                                                \o FoldNumbers[i] \o ".png",
                              shows |-> FoldKeys[i]]
                      /\ rep_html.sections[i].title = "Fold " \o FoldNumbers[i]
                      /\ rep_html.sections[i].imgs =
                             << "confusion_matrix_fold_" \o FoldNumbers[i] \o ".png",
                                "confusion_matrix_norm_fold_" \o FoldNumbers[i] \o ".png" >>
                      /\ rep_html.rows[i] = [label |-> FoldNumbers[i], key |-> FoldKeys[i]]

C2_Witness ==
    /\ rep_pc = "done"
    /\ Complete
    /\ Len(rep_written) = 11
    /\ rep_dir = "SVM/results"

\* C3: the dictionary calculate_metrics returns has exactly the keys
\* confusion_matrix, accuracy, precision, recall, f1 and auc, which are all
\* the fields generate_html_report reads of an entry, so results whose
\* entries fold_0..fold_4 come from calculate_metrics never make
\* generate_html_report fail on a missing key.
C3_MetricsCoverReport ==
    /\ \A k \in rep_from_calc : rep_results[k] = SixKeys
    /\ \A r \in rep_reads : r[2] \in SixKeys
    /\ (\A i \in 1 .. 5 : FoldKeys[i] \in rep_from_calc) =>
           rep_pc \notin { "KeyError", "TypeError" }

C3_Witness ==
    /\ rep_pc = "done"
    /\ \A i \in 1 .. 5 : FoldKeys[i] \in rep_from_calc
    /\ Cardinality(rep_reads) = 30

====
